---- MODULE Spec2Model ----
(***************************************************************************)
(* Model of the network simulator's protocol logic:                        *)
(*   - PacketTracker              (packet_tracker.py)                      *)
(*   - CongestionControllerReno   (congestion_controller.py)               *)
(*   - CongestionControllerFast   (congestion_controller.py)               *)
(* Each component has its own specification; the variables of the other    *)
(* components stay as constructed.                                         *)
(***************************************************************************)
EXTENDS Integers, Sequences, FiniteSets, TLC

\* ---- bounds of the model -------------------------------------------------
\* packet ids handed to the tracker are drawn from 0..MaxId
MaxId == 3
\* number of account_for_packet calls in one run
MaxCalls == 5

\* acknowledgement packets carry an identifier of 0..MaxPktId
MaxPktId == 1
\* 1/cwnd is added to cwnd only while numerator and denominator of cwnd are
\* at most MaxTerm (keeps the exact fractions within the integer range)
MaxTerm == 30000
\* largest duplicate_count a controller is started with in RenoHandlerSpec
MaxDup == 3

\* number of acknowledgements handled by the Fast controller in one run
MaxSamples == 4

\* number of Host.attach_link calls in one run
MaxAttach == 3
\* number of routing-update events dispatched in one run
MaxUpdates == 3

\* number of link entries and of flow entries in a topology description
MaxLinks == 2
MaxFlows == 1

\* ---- program constants ---------------------------------------------------
\* CongestionController.__init__: self.ssthresh = 1200
InitialSsthresh == 1200
\* CongestionController.__init__: self.last_ack_received = -1
InitialLastAck == -1
\* acknowledgement_received: if self.duplicate_count >= 3
DuplicateLimit == 3
\* CongestionControllerFast.__init__: self.alpha = 10.0
Alpha == 10
\* CongestionControllerFast.__init__: self.base_RTT = -1
InitialBaseRTT == -1
\* host.py: ROUTING_UPDATE_PERIOD = 100000
ROUTING_UPDATE_PERIOD == 100000
\* Host.send_routing_packet: RoutingPacket(self, self.clock.current_time, 64)
RoutingPacketSize == 64

VARIABLES
    next_packet,      \* PacketTracker.next_packet
    early_packets,    \* PacketTracker.early_packets.queue (PriorityQueue contents)
    calls,            \* history: the ids passed to account_for_packet, in order
    reno,             \* the fields of a CongestionControllerReno object
    exc,              \* the exception that left the last handler, or "none"
    retransmitted,    \* the last handler call completed a send_packet() call
    reno_last,        \* history: <<>> or <<[pre, identifier]>> of the last Reno call
    dup_run,          \* history: consecutive non-matching acks taken in
                      \* Congestion Avoidance, the last call included
    fast,             \* the fields of a CongestionControllerFast object
    rtt_samples,      \* history: the round-trip time of each acknowledgement
                      \* handed to the Fast controller, in order
    fast_acked,       \* history: the identifier of each of those acknowledgements
    host,             \* the fields of a Host object
    to_link,          \* packets handed to link.send_packet by the last Host call
    to_flow,          \* packets handed to flow.acknowledgement_received by it
    host_last,        \* history: <<>> or <<[op, pre, arg]>> of the last Host call
    attach_calls,     \* history: the links passed to Host.attach_link, in order
    current_time,     \* clock.current_time
    pending,          \* fire times of the host's scheduled RoutingUpdateEvents
    fired,            \* history: number of routing-update events dispatched
    testcase,         \* the topology description handed to the loader
    simulation        \* what generate_simulation_from_testcase left behind

trackerVars == <<next_packet, early_packets, calls>>
renoVars == <<reno, exc, retransmitted, reno_last, dup_run>>
fastVars == <<fast, rtt_samples, fast_acked>>
hostVars == <<host, to_link, to_flow, host_last, attach_calls, current_time, pending, fired>>
vars == <<next_packet, early_packets, calls, reno, exc, retransmitted, reno_last, dup_run,
          fast, rtt_samples, fast_acked,
          host, to_link, to_flow, host_last, attach_calls, current_time, pending, fired,
          testcase, simulation>>
parseVars == <<testcase, simulation>>

\* ==== PacketTracker =======================================================

\* Queue.PriorityQueue keeps a multiset of ids and serves the minimum; the
\* queue is held as an ascending sequence, so queue[0] of the code is q[1].
empty(q) == Len(q) = 0

\* PriorityQueue.put: insert x, keeping every copy already there
put(q, x) ==
    LET k == Cardinality({i \in 1..Len(q) : q[i] <= x})
    IN  SubSeq(q, 1, k) \o <<x>> \o SubSeq(q, k + 1, Len(q))

\* PriorityQueue.get_nowait: remove the minimum
get_nowait(q) == Tail(q)

\* mutant of coalesce: an `if` in place of the `while` (one early id folded at most)
coalesce_if(np, q) ==
    IF ~empty(q) /\ np = q[1] THEN <<np + 1, get_nowait(q)>> ELSE <<np, q>>

\* the while loop of account_for_packet, entered after next_packet += 1
RECURSIVE coalesce(_, _)
coalesce(np, q) ==
    IF ~empty(q) /\ np = q[1]
    THEN coalesce(np + 1, get_nowait(q))
    ELSE <<np, q>>

\* branch packet_id == next_packet
in_order(np, q) == coalesce(np + 1, q)

\* branch packet_id > next_packet
early(np, q, packet_id) == <<np, put(q, packet_id)>>

\* mutant of received_again: the old id is taken as the new expected packet
received_again_rewind(np, q, packet_id) == <<packet_id, q>>

\* mutant of received_again: the old id is queued like an early packet
received_again_queued(np, q, packet_id) == <<np, put(q, packet_id)>>

\* branch else: "received packet again - do nothing"
received_again(np, q, packet_id) == <<np, q>>

account_for_packet(packet_id) ==
    /\ Len(calls) < MaxCalls
    /\ LET r == IF packet_id = next_packet THEN in_order(next_packet, early_packets)
                ELSE IF packet_id > next_packet
                     THEN early(next_packet, early_packets, packet_id)
                     ELSE received_again(next_packet, early_packets, packet_id)
       IN  /\ next_packet' = r[1]
           /\ early_packets' = r[2]
    /\ calls' = Append(calls, packet_id)
    /\ UNCHANGED <<renoVars, fastVars, hostVars, parseVars>>

total_count_received == next_packet + Len(early_packets)

\* PacketTracker.__init__
NewTracker ==
    /\ next_packet = 0
    /\ early_packets = <<>>
    /\ calls = <<>>

\* ==== CongestionController / CongestionControllerReno =====================

slow_start == "Slow Start"
congestion_avoidance == "Congestion Avoidance"
fast_recovery == "Fast Recovery"
RenoStates == {slow_start, congestion_avoidance, fast_recovery}

\* cwnd and ssthresh are floats; they are held as exact fractions <<n, d>> in
\* lowest terms, d > 0.
RECURSIVE GCD(_, _)
GCD(a, b) == IF b = 0 THEN a ELSE GCD(b, a % b)
Frac(n, d) == LET g == GCD(n, d) IN <<n \div g, d \div g>>
\* self.cwnd += 1
PlusOne(r) == Frac(r[1] + r[2], r[2])
\* self.cwnd += 1 / self.cwnd
PlusInverse(r) == Frac(r[1] * r[1] + r[2] * r[2], r[1] * r[2])
\* self.cwnd /= 2
Halved(r) == Frac(r[1], 2 * r[2])
\* self.cwnd > self.ssthresh
Greater(r, s) == r[1] * s[2] > s[1] * r[2]
GreaterEq(r, s) == r[1] * s[2] >= s[1] * r[2]

\* what a handler call leaves behind: the object, the exception that left it
\* and whether a send_packet() call completed
Returned(c, sent) == [obj |-> c, exc |-> "none", retransmitted |-> sent]
Raised(c, e) == [obj |-> c, exc |-> e, retransmitted |-> FALSE]

\* CongestionControllerReno.send_packet is defined with no parameter at all
\* (def send_packet(): pass): a call that passes nargs arguments returns only
\* when nargs = 0 and raises TypeError otherwise.
Reno_send_packet(nargs) == IF nargs = 0 THEN "none" ELSE "TypeError"

\* mutant of slow_start_ack: the threshold test is >= in place of >
slow_start_ack_ge(c) ==
    LET c1 == [c EXCEPT !.cwnd = PlusOne(@)]
    IN  IF GreaterEq(c1.cwnd, c1.ssthresh)
        THEN Returned([c1 EXCEPT !.state = congestion_avoidance], FALSE)
        ELSE Returned(c1, FALSE)

\* branch self.state == slow_start
slow_start_ack(c) ==
    LET c1 == [c EXCEPT !.cwnd = PlusOne(@)]
    IN  IF Greater(c1.cwnd, c1.ssthresh)
        THEN Returned([c1 EXCEPT !.state = congestion_avoidance], FALSE)
        ELSE Returned(c1, FALSE)

\* duplicate_count >= 3: halve, set ssthresh, self.send_packet(), then the
\* state change; self.send_packet() passes one argument (self)
triple_duplicate(c) ==
    LET c1 == [c EXCEPT !.cwnd = Halved(@)]
        c2 == [c1 EXCEPT !.ssthresh = c1.cwnd]
        e  == Reno_send_packet(1)
    IN  IF e # "none"
        THEN Raised(c2, e)
        ELSE Returned([c2 EXCEPT !.state = fast_recovery], TRUE)

\* branch self.state == congestion_avoidance
congestion_avoidance_ack(c, identifier) ==
    IF c.next_packet_num = identifier
    THEN Returned([c EXCEPT !.cwnd = PlusInverse(@)], FALSE)
    ELSE LET c1 == [c EXCEPT !.duplicate_count = @ + 1]
         IN  IF c1.duplicate_count >= DuplicateLimit
             THEN triple_duplicate(c1)
             ELSE Returned(c1, FALSE)

\* mutant of fast_recovery_ack: the window is left as it is on leaving recovery
fast_recovery_ack_keep(c) ==
    Returned([c EXCEPT !.state = congestion_avoidance], FALSE)

\* branch else (Fast Recovery)
fast_recovery_ack(c) ==
    Returned([c EXCEPT !.state = congestion_avoidance, !.cwnd = c.ssthresh], FALSE)

Reno_acknowledgement_received(c, identifier) ==
    IF c.state = slow_start THEN slow_start_ack(c)
    ELSE IF c.state = congestion_avoidance THEN congestion_avoidance_ack(c, identifier)
    ELSE fast_recovery_ack(c)

PacketIds == 0..MaxPktId

\* the fractions stay within the integer range
Representable(c, identifier) ==
    (c.state = congestion_avoidance /\ c.next_packet_num = identifier)
        => (c.cwnd[1] <= MaxTerm /\ c.cwnd[2] <= MaxTerm)

\* one acknowledgement handled by the Reno controller; an exception that
\* leaves the handler is not caught anywhere and ends the run
RenoAck(identifier) ==
    /\ exc = "none"
    /\ Representable(reno, identifier)
    /\ LET r == Reno_acknowledgement_received(reno, identifier)
       IN  /\ reno' = r.obj
           /\ exc' = r.exc
           /\ retransmitted' = r.retransmitted
    /\ reno_last' = <<[pre |-> reno, identifier |-> identifier]>>
    /\ dup_run' = IF reno.state = congestion_avoidance /\ reno.next_packet_num # identifier
                  THEN dup_run + 1 ELSE 0
    /\ UNCHANGED <<trackerVars, fastVars, hostVars, parseVars>>

\* CongestionController.__init__ followed by CongestionControllerReno.__init__
RenoObject ==
    [ssthresh |-> <<InitialSsthresh, 1>>, cwnd |-> <<1, 1>>,
     not_acknowledged |-> <<>>, duplicate_count |-> 0, next_packet_num |-> 0,
     last_ack_received |-> InitialLastAck, state |-> slow_start]

NewReno ==
    /\ reno = RenoObject
    /\ exc = "none"
    /\ retransmitted = FALSE
    /\ reno_last = <<>>
    /\ dup_run = 0

\* ==== CongestionControllerFast ============================================

\* The class body defines acknowledgement_received twice; the second
\* definition (pass) replaces the first, so it is the method an object has.
Fast_acknowledgement_received(c, identifier) == Returned(c, FALSE)

\* round-trip times (clock.current_time - send time) of the acknowledgements
RTTs == {50, 100, 200}

\* one acknowledgement, whose round trip took rtt, handled by the Fast controller
FastAck(identifier, rtt) ==
    /\ exc = "none"
    /\ Len(rtt_samples) < MaxSamples
    /\ LET r == Fast_acknowledgement_received(fast, identifier)
       IN  /\ fast' = r.obj
           /\ exc' = r.exc
    /\ rtt_samples' = Append(rtt_samples, rtt)
    /\ fast_acked' = Append(fast_acked, identifier)
    /\ UNCHANGED <<trackerVars, reno, retransmitted, reno_last, dup_run, hostVars, parseVars>>

\* CongestionController.__init__ followed by CongestionControllerFast.__init__
FastObject ==
    [ssthresh |-> <<InitialSsthresh, 1>>, cwnd |-> <<1, 1>>,
     not_acknowledged |-> <<>>, duplicate_count |-> 0, next_packet_num |-> 0,
     last_ack_received |-> InitialLastAck, alpha |-> Alpha, base_RTT |-> InitialBaseRTT]

NewFast ==
    /\ fast = FastObject
    /\ rtt_samples = <<>>
    /\ fast_acked = <<>>

\* ==== Host ================================================================

\* devices are named by their identifier; this host is "h1"
Devices == {"h1", "h2"}
Links == {"L1", "L2"}

\* packet.py is not part of the sources: a packet is a record of its class
\* (kind) and of the fields host.py reads.
StandardKinds == {"Payload", "Acknowledgement", "Standard"}
StandardPackets ==
    [kind : StandardKinds \cup {"Other"}, source : Devices, destination : Devices,
     identifier : PacketIds]
\* RoutingPacket(source, time, size)
RoutingPacket(source, time, size) ==
    [kind |-> "Routing", source |-> source, time |-> time, size |-> size]
Packets == StandardPackets \cup {RoutingPacket(d, 0, RoutingPacketSize) : d \in Devices}

\* isinstance(packet, StandardPacket): PayloadPacket and AcknowledgementPacket
\* are the StandardPackets of the data model
IsStandardPacket(packet) == packet.kind \in StandardKinds
\* packet.acknowledgement(): the acknowledgement of a payload packet goes back
\* to its source and carries its identifier
acknowledgement(packet) ==
    [kind |-> "Acknowledgement", source |-> packet.destination,
     destination |-> packet.source, identifier |-> packet.identifier]

\* what a Host call leaves behind: the object, the exception that left it, the
\* packets handed to the link and to the flow, the delay_event calls made
HostOutcome(h, e, s, d, ev) ==
    [obj |-> h, exc |-> e, sent |-> s, delivered |-> d, scheduled |-> ev]

\* self.link.send_packet(packet, self); self.link is None until attach_link
link_send_packet(h, packet) ==
    IF h.link = "None"
    THEN HostOutcome(h, "AttributeError", <<>>, <<>>, <<>>)
    ELSE HostOutcome(h, "none", <<packet>>, <<>>, <<>>)

\* self.flow.acknowledgement_received(packet); self.flow is None until set
flow_acknowledgement_received(h, packet) ==
    IF h.flow = "None"
    THEN HostOutcome(h, "AttributeError", <<>>, <<>>, <<>>)
    ELSE HostOutcome(h, "none", <<>>, <<packet>>, <<>>)

\* mutant of Host_send_packet: the source is not checked
Host_send_packet_unchecked(h, packet) == link_send_packet(h, packet)

\* Host.send_packet
Host_send_packet(h, packet) ==
    IF packet.source # h.identifier
    THEN HostOutcome(h, "AssertionError", <<>>, <<>>, <<>>)
    ELSE link_send_packet(h, packet)

\* the part of Host.handle_packet after the RoutingPacket test
handle_standard_packet(h, packet) ==
    IF ~IsStandardPacket(packet)
    THEN HostOutcome(h, "AssertionError", <<>>, <<>>, <<>>)
    ELSE IF packet.destination # h.identifier
    THEN HostOutcome(h, "AssertionError", <<>>, <<>>, <<>>)
    ELSE IF packet.kind = "Payload"
    THEN link_send_packet(h, acknowledgement(packet))
    ELSE IF packet.kind = "Acknowledgement"
    THEN flow_acknowledgement_received(h, packet)
    ELSE HostOutcome(h, "SystemExit", <<>>, <<>>, <<>>)

\* mutant of Host_handle_packet: routing packets are not filtered out first
Host_handle_packet_unfiltered(h, packet) == handle_standard_packet(h, packet)

\* Host.handle_packet
Host_handle_packet(h, packet) ==
    IF packet.kind = "Routing"
    THEN HostOutcome(h, "none", <<>>, <<>>, <<>>)
    ELSE handle_standard_packet(h, packet)

\* mutant of Host_attach_link: a later link replaces the first
Host_attach_link_overwrite(h, link) ==
    HostOutcome([h EXCEPT !.link = link], "none", <<>>, <<>>, <<>>)

\* Host.attach_link
Host_attach_link(h, link) ==
    IF h.link = "None"
    THEN HostOutcome([h EXCEPT !.link = link], "none", <<>>, <<>>, <<>>)
    ELSE HostOutcome(h, "SystemExit", <<>>, <<>>, <<>>)

\* mutant of Host_send_routing_packet: the next update is not scheduled
Host_send_routing_packet_once(h, now) ==
    Host_send_packet(h, RoutingPacket(h.identifier, now, RoutingPacketSize))

\* Host.send_routing_packet; delay_event(offset, event) is recorded as the
\* pair of the offset and the host of the RoutingUpdateEvent
Host_send_routing_packet(h, now) ==
    LET r == Host_send_packet(h, RoutingPacket(h.identifier, now, RoutingPacketSize))
    IN  IF r.exc # "none" THEN r
        ELSE [r EXCEPT !.scheduled = <<[offset |-> ROUTING_UPDATE_PERIOD,
                                        host |-> h.identifier]>>]

\* EventScheduler.delay_event: schedule(event, now + offset); the queue is
\* ordered by fire time, first in first out among equal times
delay_event(q, now, offset) ==
    LET k == Cardinality({i \in 1..Len(q) : q[i] <= now + offset})
    IN  SubSeq(q, 1, k) \o <<now + offset>> \o SubSeq(q, k + 1, Len(q))

RECURSIVE delay_events(_, _, _)
delay_events(q, now, evs) ==
    IF evs = <<>> THEN q
    ELSE delay_events(delay_event(q, now, Head(evs).offset), now, Tail(evs))

\* a Host call and what it leaves in the variables
HostCall(op, arg, r) ==
    /\ host' = r.obj
    /\ exc' = r.exc
    /\ to_link' = r.sent
    /\ to_flow' = r.delivered
    /\ host_last' = <<[op |-> op, pre |-> host, arg |-> arg]>>
    /\ UNCHANGED <<trackerVars, reno, retransmitted, reno_last, dup_run, fastVars, parseVars>>

attach_link(link) ==
    /\ exc = "none"
    /\ Len(attach_calls) < MaxAttach
    /\ HostCall("attach_link", link, Host_attach_link(host, link))
    /\ attach_calls' = Append(attach_calls, link)
    /\ UNCHANGED <<current_time, pending, fired>>

\* the Flow that owns the host's transfer registers itself with the host
flow_attached ==
    /\ exc = "none"
    /\ host.flow = "None"
    /\ HostCall("flow_attached", "F1",
                HostOutcome([host EXCEPT !.flow = "F1"], "none", <<>>, <<>>, <<>>))
    /\ UNCHANGED <<attach_calls, current_time, pending, fired>>

handle_packet(packet) ==
    /\ exc = "none"
    /\ HostCall("handle_packet", packet, Host_handle_packet(host, packet))
    /\ UNCHANGED <<attach_calls, current_time, pending, fired>>

send_packet(packet) ==
    /\ exc = "none"
    /\ HostCall("send_packet", packet, Host_send_packet(host, packet))
    /\ UNCHANGED <<attach_calls, current_time, pending, fired>>

\* the simulation schedules the host's first RoutingUpdateEvent
first_update_scheduled ==
    /\ exc = "none"
    /\ fired = 0
    /\ pending = <<>>
    /\ pending' = delay_event(pending, current_time, 0)
    /\ UNCHANGED <<trackerVars, renoVars, fastVars, host, to_link, to_flow, host_last,
                   attach_calls, current_time, fired, parseVars>>

\* the scheduler pops the earliest event, advances the clock to its fire time
\* and dispatches it: RoutingUpdateEvent calls host.send_routing_packet()
routing_update_dispatched ==
    /\ exc = "none"
    /\ pending # <<>>
    /\ fired < MaxUpdates
    /\ LET now == Head(pending)
           r == Host_send_routing_packet(host, now)
       IN  /\ current_time' = now
           /\ HostCall("send_routing_packet", now, r)
           /\ pending' = delay_events(Tail(pending), now, r.scheduled)
    /\ fired' = fired + 1
    /\ UNCHANGED attach_calls

\* Host.__init__
HostObject == [identifier |-> "h1", link |-> "None", flow |-> "None"]

NewHost ==
    /\ host = HostObject
    /\ to_link = <<>>
    /\ to_flow = <<>>
    /\ host_last = <<>>
    /\ attach_calls = <<>>
    /\ current_time = 0
    /\ pending = <<>>
    /\ fired = 0

\* ==== parsing: generate_simulation_from_testcase ==========================

\* ids used in topology descriptions; "x" names no device
HostIds == {"h1", "h2"}
RouterIds == {"r1"}
Ids == HostIds \cup RouterIds \cup {"x"}
\* l["id"] of the i-th link entry
LinkNames == <<"L1", "L2", "L3", "L4">>

SeqsUpTo(S, n) == UNION {[1..k -> S] : k \in 0..n}
Testcases ==
    [hosts : SUBSET HostIds, routers : SUBSET RouterIds,
     links : SeqsUpTo([endpoints : Ids \X Ids], MaxLinks),
     flows : SeqsUpTo([source : Ids, destination : Ids], MaxFlows)]

\* hosts[h["id"]] = Host(h["id"])
Host(identifier) == [HostObject EXCEPT !.identifier = identifier]
\* routers[r["id"]] = Router(r["id"]); a router keeps every link attached to it
Router(identifier) == [identifier |-> identifier, links |-> <<>>]
Router_attach_link(r, link) == [r EXCEPT !.links = Append(@, link)]
\* Flow(id, source, destination, amount, start); None is "None"
Flow(source, destination) == [source |-> source, destination |-> destination]

\* dict.get(key): the value, or None
get(d, key) == IF key \in DOMAIN d THEN d[key].identifier ELSE "None"

\* the object graph while it is built, and how the build ended so far
Graph(status, hosts, routers, flows) ==
    [status |-> status, hosts |-> hosts, routers |-> routers, flows |-> flows]

\* device.attach_link(link) for the device with this id (a host first:
\* [hosts, routers] is searched in that order)
device_attach_link(g, id, link) ==
    IF g.status # "building" THEN g
    ELSE IF id \in DOMAIN g.hosts
    THEN LET r == Host_attach_link(g.hosts[id], link)
         IN  IF r.exc # "none" THEN [g EXCEPT !.status = r.exc]
             ELSE [g EXCEPT !.hosts[id] = r.obj]
    ELSE [g EXCEPT !.routers[id] = Router_attach_link(@, link)]

\* one round of the loop over links_info: both devices are looked up, [ ... ][0]
\* of an empty list is an IndexError, then the link is attached to A and to B
add_link(g, l, name) ==
    LET known == DOMAIN g.hosts \cup DOMAIN g.routers
        deviceA_id == l.endpoints[1]
        deviceB_id == l.endpoints[2]
    IN  IF deviceA_id \notin known \/ deviceB_id \notin known
        THEN [g EXCEPT !.status = "IndexError"]
        ELSE device_attach_link(device_attach_link(g, deviceA_id, name), deviceB_id, name)

RECURSIVE add_links(_, _, _)
add_links(g, links_info, i) ==
    IF i > Len(links_info) \/ g.status # "building" THEN g
    ELSE add_links(add_link(g, links_info[i], LinkNames[i]), links_info, i + 1)

\* one round of the loop over flows_info
add_flow(g, f) ==
    LET source_id == f.source
        destination_id == f.destination
        source == get(g.hosts, source_id)
        destination == get(g.hosts, source_id)
    IN  [g EXCEPT !.flows = Append(@, Flow(source, destination))]

RECURSIVE add_flows(_, _, _)
add_flows(g, flows_info, i) ==
    IF i > Len(flows_info) \/ g.status # "building" THEN g
    ELSE add_flows(add_flow(g, flows_info[i]), flows_info, i + 1)

generate_simulation_from_testcase(input_dict) ==
    LET hosts == [h \in input_dict.hosts |-> Host(h)]
        routers == [r \in input_dict.routers |-> Router(r)]
        g0 == Graph("building", hosts, routers, <<>>)
        g1 == add_links(g0, input_dict.links, 1)
        g2 == add_flows(g1, input_dict.flows, 1)
    IN  IF g2.status = "building" THEN [g2 EXCEPT !.status = "returned"] ELSE g2

NotBuilt == Graph("not built", <<>>, <<>>, <<>>)

\* the loader is run on the description
build ==
    /\ simulation.status = "not built"
    /\ simulation' = generate_simulation_from_testcase(testcase)
    /\ UNCHANGED <<trackerVars, renoVars, fastVars, hostVars, testcase>>

NoTestcase == [hosts |-> {}, routers |-> {}, links |-> <<>>, flows |-> <<>>]
NewParse ==
    /\ testcase = NoTestcase
    /\ simulation = NotBuilt

\* ==== specifications ======================================================

TrackerInit == NewTracker /\ NewReno /\ NewFast /\ NewHost /\ NewParse
TrackerNext == \E packet_id \in 0..MaxId : account_for_packet(packet_id)
TrackerSpec == TrackerInit /\ [][TrackerNext]_vars

RenoInit == NewTracker /\ NewReno /\ NewFast /\ NewHost /\ NewParse
RenoNext == \E identifier \in PacketIds : RenoAck(identifier)
RenoSpec == RenoInit /\ [][RenoNext]_vars

\* The handler applied to a controller object in any state: the fields are
\* drawn from small sets (window and threshold are floats).
WindowValues == {<<1, 1>>, <<2, 1>>, <<5, 2>>, <<8, 1>>}
ThresholdValues == {<<2, 1>>, <<5, 2>>, <<4, 1>>}

RenoHandlerInit ==
    /\ NewTracker
    /\ NewFast
    /\ NewHost
    /\ NewParse
    /\ \E st \in RenoStates, w \in WindowValues, t \in ThresholdValues, d \in 0..MaxDup :
         reno = [RenoObject EXCEPT !.state = st, !.cwnd = w, !.ssthresh = t,
                                   !.duplicate_count = d]
    /\ exc = "none"
    /\ retransmitted = FALSE
    /\ reno_last = <<>>
    /\ dup_run = 0

RenoHandlerSpec == RenoHandlerInit /\ [][RenoNext]_vars

FastInit == NewTracker /\ NewReno /\ NewFast /\ NewHost /\ NewParse
FastNext == \E identifier \in PacketIds, rtt \in RTTs : FastAck(identifier, rtt)
FastSpec == FastInit /\ [][FastNext]_vars

\* The Fast handler applied to a controller whose not_acknowledged mapping
\* already holds the send time of some packets.
FastHandlerInit ==
    /\ NewTracker
    /\ NewReno
    /\ NewHost
    /\ NewParse
    /\ \E sent_ids \in SUBSET PacketIds :
         fast = [FastObject EXCEPT !.not_acknowledged = [k \in sent_ids |-> 0]]
    /\ rtt_samples = <<>>
    /\ fast_acked = <<>>

FastHandlerSpec == FastHandlerInit /\ [][FastNext]_vars

HostInit == NewTracker /\ NewReno /\ NewFast /\ NewHost /\ NewParse
HostNext ==
    \/ \E link \in Links : attach_link(link)
    \/ flow_attached
    \/ \E packet \in Packets : handle_packet(packet)
    \/ \E packet \in Packets : send_packet(packet)
    \/ first_update_scheduled
    \/ routing_update_dispatched
HostSpec == HostInit /\ [][HostNext]_vars

\* the loader applied to every description of the bounded shape
ParseInit ==
    /\ NewTracker /\ NewReno /\ NewFast /\ NewHost
    /\ testcase \in Testcases
    /\ simulation = NotBuilt
ParseNext == build
ParseSpec == ParseInit /\ [][ParseNext]_vars

\* ---- helpers for the tracker's properties --------------------------------
\* the id passed by the call that produced the next state
called == calls'[Len(calls')]
a_call == Len(calls') = Len(calls) + 1
distinct_ids == {calls[i] : i \in 1..Len(calls)}
in_early(id) == \E i \in 1..Len(early_packets) : early_packets[i] = id
\* calls is a permutation of 0..Len(calls)-1
each_id_once ==
    /\ Len(calls) >= 1
    /\ distinct_ids = 0..(Len(calls) - 1)

\* C1: total_count_received() is next_expected + |early set| and equals the
\* number of distinct packet ids passed to account_for_packet so far.
C1_TotalIsDistinctCount ==
    /\ total_count_received = next_packet + Len(early_packets)
    /\ total_count_received = Cardinality(distinct_ids)

\* C2: every id held in the early set is strictly greater than next_expected.
C2_EarlyAboveNext ==
    \A i \in 1..Len(early_packets) : early_packets[i] > next_packet

\* C3: account_for_packet(id) with id > next_expected and id already in the
\* early set leaves next_expected, the early set and the total unchanged.
C3_EarlyIdempotent ==
    [][(a_call /\ called > next_packet /\ in_early(called))
         => /\ next_packet' = next_packet
            /\ early_packets' = early_packets
            /\ total_count_received' = total_count_received]_vars

\* C4: next_expected never decreases from one call to the next.
C4_NextNeverDecreases == [][next_packet' >= next_packet]_vars

C4_Witness == calls = <<1, 3, 0, 0>> /\ next_packet = 2 /\ early_packets = <<3>>

\* C5: after account_for_packet was called exactly once with each id of
\* 0..n-1, in any order, next_expected = n, the early set is empty and
\* total_count_received() = n.
C5_PermutationCoalesces ==
    (each_id_once /\ Cardinality(distinct_ids) = Len(calls))
        => /\ next_packet = Len(calls)
           /\ early_packets = <<>>
           /\ total_count_received = Len(calls)

C5_Witness == calls = <<2, 0, 1>> /\ next_packet = 3 /\ early_packets = <<>>

\* C6: account_for_packet(id) with id < next_expected changes neither
\* next_expected nor the early set.
C6_OldIdNoOp ==
    [][(a_call /\ called < next_packet)
         => (next_packet' = next_packet /\ early_packets' = early_packets)]_vars

C6_Witness == calls = <<0, 2, 0>> /\ next_packet = 1 /\ early_packets = <<2>>

\* ---- helpers for the controllers' properties ------------------------------
reno_called == Len(reno_last) = 1
reno_pre == reno_last[1].pre
reno_identifier == reno_last[1].identifier
\* the last acknowledgement was taken in Congestion Avoidance and did not
\* match the expected next packet number
non_matching_in_ca ==
    /\ reno_called
    /\ reno_pre.state = congestion_avoidance
    /\ reno_identifier # reno_pre.next_packet_num
window_untouched ==
    /\ reno.cwnd = reno_pre.cwnd
    /\ reno.ssthresh = reno_pre.ssthresh
    /\ reno.state = reno_pre.state

\* C7: in Congestion Avoidance the third of three consecutive non-matching
\* acknowledgements halves cwnd, sets ssthresh to the halved cwnd, triggers a
\* retransmission and leaves the controller in Fast Recovery; the first and
\* the second change neither cwnd, ssthresh nor state.
C7_ThirdDuplicateEntersRecovery ==
    non_matching_in_ca =>
        /\ dup_run < 3 => window_untouched
        /\ dup_run = 3 =>
              /\ reno.cwnd = Halved(reno_pre.cwnd)
              /\ reno.ssthresh = reno.cwnd
              /\ retransmitted
              /\ exc = "none"
              /\ reno.state = fast_recovery

\* C8: in Fast Recovery the next acknowledgement, whatever its identifier, sets
\* cwnd to ssthresh, moves the state to Congestion Avoidance and leaves
\* ssthresh unchanged.
C8_RecoveryExit ==
    (reno_called /\ reno_pre.state = fast_recovery) =>
        /\ reno.cwnd = reno_pre.ssthresh
        /\ reno.state = congestion_avoidance
        /\ reno.ssthresh = reno_pre.ssthresh

C8_Witness ==
    /\ reno_called
    /\ reno_pre.state = fast_recovery
    /\ reno_identifier # reno_pre.next_packet_num
    /\ reno_pre.cwnd = <<8, 1>>
    /\ reno.cwnd = <<5, 2>>
    /\ reno.state = congestion_avoidance

\* C9: the controller starts in Slow Start; each acknowledgement taken in Slow
\* Start adds exactly 1 to cwnd and the state becomes Congestion Avoidance on
\* the acknowledgement that makes cwnd exceed ssthresh and not before; Slow
\* Start is never entered again.
C9_SlowStartGrowth ==
    /\ ~reno_called => reno.state = slow_start
    /\ (reno_called /\ reno_pre.state = slow_start) =>
          /\ reno.cwnd = <<reno_pre.cwnd[1] + reno_pre.cwnd[2], reno_pre.cwnd[2]>>
          /\ reno.ssthresh = reno_pre.ssthresh
          /\ reno.state = IF Greater(reno.cwnd, reno.ssthresh)
                          THEN congestion_avoidance ELSE slow_start
    /\ (reno_called /\ reno_pre.state # slow_start) => reno.state # slow_start

C9_Witness ==
    /\ reno_called
    /\ reno_pre.state = slow_start
    /\ reno.state = congestion_avoidance
    /\ reno.cwnd = <<InitialSsthresh + 1, 1>>

\* the smallest of the first k round-trip samples
SmallestSample(k) ==
    CHOOSE m \in {rtt_samples[i] : i \in 1..k} :
        \A i \in 1..k : m <= rtt_samples[i]
\* the window the Fast control law gives after the first k samples: each
\* sample multiplies it by base_RTT / rtt, base_RTT being the minimum of the
\* samples before it (the sample itself when it is the first)
RECURSIVE LawWindow(_)
LawWindow(k) ==
    IF k = 0 THEN <<1, 1>>
    ELSE LET w == LawWindow(k - 1)
             base == IF k = 1 THEN rtt_samples[1] ELSE SmallestSample(k - 1)
         IN  Frac(w[1] * base, w[2] * rtt_samples[k])

\* C10: after acknowledgements with round-trip samples r1..rk the Fast
\* controller's base_RTT is min(r1..rk) and cwnd is the product of the ratios
\* base_RTT/rtt, each taken with the base_RTT held before the sample lowers it.
C10_FastTracksMinimumRTT ==
    Len(rtt_samples) >= 1 =>
        /\ fast.base_RTT = SmallestSample(Len(rtt_samples))
        /\ fast.cwnd = LawWindow(Len(rtt_samples))

\* the smallest non-negative id never passed to account_for_packet
SmallestMissing ==
    CHOOSE n \in 0..(MaxId + 1) :
        /\ n \notin distinct_ids
        /\ \A m \in 0..(n - 1) : m \in distinct_ids

\* C16: next_expected is the smallest non-negative id that has never been
\* passed to account_for_packet, for every call sequence, repeated early ids
\* included.
C16_NextIsSmallestMissing == next_packet = SmallestMissing

\* the last acknowledgement was taken in Congestion Avoidance and matched
matching_in_ca ==
    /\ reno_called
    /\ reno_pre.state = congestion_avoidance
    /\ reno_identifier = reno_pre.next_packet_num

\* C17: in Congestion Avoidance cwnd is halved only when the three most
\* recent acknowledgements taken there were all non-matching (a matching one
\* restarts the count, and so does a return from Fast Recovery); a matching
\* acknowledgement adds 1/cwnd to cwnd and leaves ssthresh and state unchanged.
C17_HalvingNeedsThreeInARow ==
    /\ (non_matching_in_ca /\ reno.cwnd = Halved(reno_pre.cwnd)) => dup_run >= 3
    /\ matching_in_ca =>
          /\ reno.cwnd = Frac(reno_pre.cwnd[1] * reno_pre.cwnd[1]
                                + reno_pre.cwnd[2] * reno_pre.cwnd[2],
                              reno_pre.cwnd[1] * reno_pre.cwnd[2])
          /\ reno.ssthresh = reno_pre.ssthresh
          /\ reno.state = reno_pre.state

RenoTransitions ==
    {<<slow_start, congestion_avoidance>>,
     <<congestion_avoidance, fast_recovery>>,
     <<fast_recovery, congestion_avoidance>>}

\* C18: the state is always one of the three; an acknowledgement changes it
\* only along Slow Start -> Congestion Avoidance -> Fast Recovery ->
\* Congestion Avoidance; and no state is terminal: every acknowledgement
\* handed to the controller is processed, the one that enters Fast Recovery
\* included.
C18_StateMachineNeverStops ==
    /\ reno.state \in RenoStates
    /\ reno_called =>
          \/ reno.state = reno_pre.state
          \/ <<reno_pre.state, reno.state>> \in RenoTransitions
    /\ exc = "none"
    /\ (non_matching_in_ca /\ reno.duplicate_count >= DuplicateLimit)
          => reno.state = fast_recovery

\* C19: an acknowledgement handled by the Fast controller removes the
\* acknowledged identifier from not_acknowledged and leaves every other entry
\* as it was (so the mapping is empty once every sent packet is acknowledged).
C19_AckRemovesEntry ==
    [][(Len(fast_acked') = Len(fast_acked) + 1
          /\ fast_acked'[Len(fast_acked')] \in DOMAIN fast.not_acknowledged)
         => fast'.not_acknowledged =
              [k \in (DOMAIN fast.not_acknowledged) \ {fast_acked'[Len(fast_acked')]}
                 |-> fast.not_acknowledged[k]]]_vars

\* ---- helpers for the host's properties ------------------------------------
host_called(op) == Len(host_last) = 1 /\ host_last[1].op = op
host_pre == host_last[1].pre
host_arg == host_last[1].arg
fatal == exc \in {"SystemExit", "AssertionError"}

\* C11: handle_packet dispatches by kind: a Routing packet changes nothing and
\* sends nothing; a Payload packet addressed to this host is answered by
\* exactly one send of its acknowledgement on the host's link, without a call
\* to the flow; an Acknowledgement packet addressed to this host is handed
\* exactly once to the flow's acknowledgement_received, without a send; any
\* other kind is a fatal error.
C11_HandlePacketDispatch ==
    host_called("handle_packet") =>
        /\ host = host_pre
        /\ host_arg.kind = "Routing" =>
              (to_link = <<>> /\ to_flow = <<>> /\ exc = "none")
        /\ (host_arg.kind = "Payload" /\ host_arg.destination = host_pre.identifier
              /\ host_pre.link # "None") =>
              /\ to_link = <<[kind |-> "Acknowledgement", source |-> host.identifier,
                               destination |-> host_arg.source,
                               identifier |-> host_arg.identifier]>>
              /\ to_flow = <<>>
              /\ exc = "none"
        /\ (host_arg.kind = "Acknowledgement" /\ host_arg.destination = host_pre.identifier
              /\ host_pre.flow # "None") =>
              (to_flow = <<host_arg>> /\ to_link = <<>> /\ exc = "none")
        /\ host_arg.kind \notin {"Routing", "Payload", "Acknowledgement"} =>
              (fatal /\ to_link = <<>> /\ to_flow = <<>>)

C11_Witness ==
    /\ host_called("handle_packet")
    /\ host_arg.kind = "Payload"
    /\ host_arg.source = "h2"
    /\ Len(to_link) = 1
    /\ to_link[1].kind = "Acknowledgement"
    /\ to_link[1].destination = "h2"
    /\ host.flow # "None"

\* C12: the first attach_link call sets the host's link; every later call is a
\* fatal error that leaves the first link attached.
C12_AttachLinkOnce ==
    /\ Len(attach_calls) = 0 => host.link = "None"
    /\ Len(attach_calls) >= 1 => host.link = attach_calls[1]
    /\ (Len(attach_calls) = 1 /\ host_called("attach_link")) => exc = "none"
    /\ Len(attach_calls) >= 2 => exc = "SystemExit"

C12_Witness ==
    /\ attach_calls = <<"L1", "L2">>
    /\ host.link = "L1"
    /\ exc = "SystemExit"

\* C13: a routing-update event dispatched at time t to a host with a link
\* sends exactly one Routing packet with source this host over the link and
\* schedules exactly one RoutingUpdateEvent at t + ROUTING_UPDATE_PERIOD; once
\* the first has fired such a host has exactly one pending routing update.
C13_RoutingUpdateReschedules ==
    /\ (host_called("send_routing_packet") /\ host_pre.link # "None") =>
          /\ exc = "none"
          /\ current_time = host_arg
          /\ Len(to_link) = 1
          /\ to_link[1].kind = "Routing"
          /\ to_link[1].source = host.identifier
          /\ to_link[1].time = current_time
          /\ pending = <<current_time + ROUTING_UPDATE_PERIOD>>
    /\ (fired >= 1 /\ host.link # "None") => Len(pending) = 1

C13_Witness ==
    /\ host_called("send_routing_packet")
    /\ fired = 2
    /\ current_time = ROUTING_UPDATE_PERIOD
    /\ pending = <<2 * ROUTING_UPDATE_PERIOD>>
    /\ Len(to_link) = 1

\* C15: send_packet(packet) hands the packet to the host's link exactly once
\* when packet.source is this host; when it is another device the assertion
\* fails and nothing is handed to the link.
C15_SendPacketChecksSource ==
    host_called("send_packet") =>
        /\ (host_arg.source = host_pre.identifier /\ host_pre.link # "None") =>
              (to_link = <<host_arg>> /\ exc = "none")
        /\ host_arg.source # host_pre.identifier =>
              (to_link = <<>> /\ exc = "AssertionError")

C15_Witness ==
    /\ host_called("send_packet")
    /\ host_arg.source = "h2"
    /\ host.link = "L1"
    /\ exc = "AssertionError"
    /\ to_link = <<>>

C15_WitnessSent ==
    /\ host_called("send_packet")
    /\ host_arg.source = "h1"
    /\ to_link = <<host_arg>>

\* ---- helpers for the loader's properties ----------------------------------
built == simulation.status # "not built"
aborted == simulation.status \in {"SystemExit", "IndexError"}
\* how many times the links of the description name host h as an endpoint
attachments(h) ==
    Cardinality({<<i, e>> \in (1..Len(testcase.links)) \X {1, 2} :
                    testcase.links[i].endpoints[e] = h})
second_link_on_a_host == \E h \in testcase.hosts : attachments(h) >= 2
unknown_endpoint ==
    \E i \in 1..Len(testcase.links), e \in {1, 2} :
        testcase.links[i].endpoints[e] \notin testcase.hosts \cup testcase.routers
flow_of_unknown_host ==
    \E i \in 1..Len(testcase.flows) :
        \/ testcase.flows[i].source \notin testcase.hosts
        \/ testcase.flows[i].destination \notin testcase.hosts

\* C14: building a simulation aborts with a fatal error, returning no
\* Simulation, whenever the description attaches a second link to a host,
\* names a link endpoint that is neither host nor router, or has a flow whose
\* source or destination is not a known host.
C14_BadTopologyAborts ==
    (built /\ (second_link_on_a_host \/ unknown_endpoint \/ flow_of_unknown_host))
        => aborted

\* C20: for every flow entry whose source and destination name known hosts the
\* Flow built has the Host of the source id as source and the Host of the
\* destination id as destination.
C20_FlowEndpoints ==
    simulation.status = "returned" =>
        \A i \in 1..Len(testcase.flows) :
            (testcase.flows[i].source \in testcase.hosts
               /\ testcase.flows[i].destination \in testcase.hosts)
            => /\ simulation.flows[i].source = testcase.flows[i].source
               /\ simulation.flows[i].destination = testcase.flows[i].destination

====
